---- MODULE Spec2Model ----
(***************************************************************************)
(* portpicker (src/src/lib.rs): probing the local host for a port that is  *)
(* unused on TCP and UDP, on the IPv4 and the IPv6 wildcard address.       *)
(*                                                                         *)
(* The state is the OS port table (the sockets other processes hold, the   *)
(* probe sockets the library has open), the host's network configuration,  *)
(* and the position of each calling thread inside the library.             *)
(***************************************************************************)
EXTENDS Integers, Sequences, FiniteSets, TLC

VARIABLES
    occupied,   \* sockets bound by other processes: [proto, fam, port]
    held,       \* probe sockets the library has open: [owner, proto, fam, port]
    ipv6,       \* the host supports the IPv6 address family
    v6only,     \* IPv6 wildcard sockets do not cover IPv4 (IPV6_V6ONLY)
    faults,     \* system calls may also fail for lack of resources
    th          \* thread -> its position in the library and its locals

vars == <<occupied, held, ipv6, v6only, faults, th>>

----------------------------------------------------------------------------
(* Program constants *)

\* pub type Port = u16
MAX_PORT == 65535
\* rng.gen_range(15000..25000)
RANDOM_LO == 15000
RANDOM_HI == 25000
\* for _ in 0..10 (random phase)
RANDOM_ATTEMPTS == 10
\* for _ in 0..10 (OS phase)
OS_ATTEMPTS == 10

(* Bounds of the model *)

\* other processes hold at most this many sockets
MaxOccupied == 2
\* a range argument spans at most this many ports
MaxRangeLen == 2

\* Option<Port>
None == <<>>
Some(p) == <<p>>
is_some(o) == o # None
unwrap(o) == o[1]

Protos == {"tcp", "udp"}
Fams == {"v6", "v4"}
Threads == {"t1", "t2"}

\* the ports other processes bind in the model
OccPorts == {RANDOM_LO, RANDOM_LO + 1, 32768}
\* the ports the OS hands out for a bind to port 0
EphemeralPorts == {32768, 32769}
\* the values the random generator is sampled at
SamplePorts == {RANDOM_LO - 1, RANDOM_LO, RANDOM_LO + 1, RANDOM_HI - 1, RANDOM_HI}
\* the port arguments of the predicates
ArgPorts == {0, 80, RANDOM_LO, RANDOM_LO + 1, 32768}
\* the range arguments: start..end, empty ones (end <= start) included
RangeStarts == {0, RANDOM_LO}
Ranges == UNION {{[start |-> s, end |-> e] :
                    e \in {x \in (s - 1)..(s + MaxRangeLen) : x >= 0 /\ x <= MAX_PORT}} :
                 s \in RangeStarts}

OccSockets == [proto : Protos, fam : Fams, port : OccPorts]

----------------------------------------------------------------------------
(* The OS socket layer under UdpSocket::bind / TcpListener::bind *)

Ok(p) == [ok |-> TRUE, port |-> p, err |-> "none"]
Err(e) == [ok |-> FALSE, port |-> 0, err |-> e]

\* two wildcard sockets of one protocol on one port exclude each other when
\* they are of one family, or when the IPv6 one also covers IPv4
Conflicts(proto, fam, port, s) ==
    /\ s.proto = proto
    /\ s.port = port
    /\ (s.fam = fam \/ ~v6only)

\* the sockets bound on the host: other processes' and the library's own
PortTable == occupied \cup {[proto |-> s.proto, fam |-> s.fam, port |-> s.port] : s \in held}

InUse(table, proto, fam, port) == \E s \in table : Conflicts(proto, fam, port, s)

\* what the host answers to a bind of the wildcard address of fam on port
\* with the sockets of table bound
HostBind(table, proto, fam, port) ==
    IF fam = "v6" /\ ~ipv6 THEN {Err("EAFNOSUPPORT")}
    ELSE IF port = 0
         THEN LET free == {q \in EphemeralPorts : ~InUse(table, proto, fam, q)}
              IN  IF free = {} THEN {Err("EADDRINUSE")} ELSE {Ok(q) : q \in free}
    ELSE IF port < 1024 THEN {Err("EACCES")}
    ELSE IF InUse(table, proto, fam, port) THEN {Err("EADDRINUSE")}
    ELSE {Ok(port)}

\* the outcomes of bind(addr): the host's answer, or a resource failure
OsBind(proto, fam, port) ==
    HostBind(PortTable, proto, fam, port) \cup (IF faults THEN {Err("EMFILE")} ELSE {})

\* the outcomes of local_addr() on a bound socket
OsLocalAddr(sock) ==
    {Ok(sock.port)} \cup (IF faults THEN {Err("ENOBUFS")} ELSE {})

----------------------------------------------------------------------------
(* The library *)

\* `.unwrap()` in place of `.ok()?`
Unwrap(res) ==
    IF res.ok THEN [kind |-> "value", port |-> res.port]
              ELSE [kind |-> "panic", port |-> 0]

\* `.ok()?`: the value of an Ok, an early return of None on an Err
Try(res) ==
    IF res.ok THEN [kind |-> "value", port |-> res.port]
              ELSE [kind |-> "return", port |-> 0]

Probe(proto, fam, port) == [proto |-> proto, fam |-> fam, port |-> port]

\* a && b over probes, or a.or_else(b) over probes
NoPlan == [mode |-> "and", probes |-> <<>>]

\* the IPv4 probe left out
is_free_udp_v6(port) ==
    [mode |-> "and", probes |-> <<Probe("udp", "v6", port)>>]

\* test_bind_udp(ipv6).is_some() && test_bind_udp(ipv4).is_some()
is_free_udp(port) ==
    [mode |-> "and", probes |-> <<Probe("udp", "v6", port), Probe("udp", "v4", port)>>]

\* the IPv4 probe left out
is_free_tcp_v6(port) ==
    [mode |-> "and", probes |-> <<Probe("tcp", "v6", port)>>]

\* test_bind_tcp(ipv6).is_some() && test_bind_tcp(ipv4).is_some()
is_free_tcp(port) ==
    [mode |-> "and", probes |-> <<Probe("tcp", "v6", port), Probe("tcp", "v4", port)>>]

\* the UDP check left out
is_free_no_udp(port) ==
    [mode |-> "and", probes |-> <<Probe("tcp", "v6", port), Probe("tcp", "v4", port)>>]

\* is_free_tcp(port) && is_free_udp(port)
is_free(port) ==
    [mode |-> "and", probes |-> is_free_tcp(port).probes \o is_free_udp(port).probes]

\* test_bind_tcp(ipv6).or_else(|| test_bind_tcp(ipv4)), both on port 0
ask_free_tcp_port ==
    [mode |-> "or_else", probes |-> <<Probe("tcp", "v6", 0), Probe("tcp", "v4", 0)>>]

\* rng.gen_range(lo..=hi)
gen_range_inclusive(lo, hi) == {p \in SamplePorts : lo <= p /\ p <= hi}

\* rng.gen_range(lo..hi), at the sampled values
gen_range(lo, hi) == {p \in SamplePorts : lo <= p /\ p < hi}

Idle ==
    [pc |-> "idle", op |-> "none", arg |-> 0, start |-> 0, end |-> 0, cur |-> 0,
     i |-> 0, j |-> 0, port |-> 0, plan |-> NoPlan, ret |-> "done",
     b |-> FALSE, got |-> None, result |-> None]

\* enter a predicate (or ask_free_tcp_port) that returns to pc ret
Enter(s, plan, ret) == [s EXCEPT !.plan = plan, !.ret = ret, !.pc = "bind"]

\* test_bind_* returned r to the expression that called it
ProbeReturn(s, r) ==
    LET rest == Tail(s.plan.probes) IN
    IF s.plan.mode = "and"
    THEN IF is_some(r) /\ rest # <<>>
         THEN [s EXCEPT !.plan.probes = rest, !.pc = "bind"]
         ELSE [s EXCEPT !.plan = NoPlan, !.b = is_some(r), !.pc = s.ret]
    ELSE IF ~is_some(r) /\ rest # <<>>
         THEN [s EXCEPT !.plan.probes = rest, !.pc = "bind"]
         ELSE [s EXCEPT !.plan = NoPlan, !.got = r, !.pc = s.ret]

\* the socket kept alive past the return
Leak(t, sock) == held

\* the socket value is dropped when test_bind_* returns
Drop(t, sock) == held \ {sock}

\* a call of one of the public functions
Call(t, ops, ports, ranges) ==
    /\ th[t].pc \in {"idle", "done"}
    /\ \E op \in ops :
         CASE op = "is_free_udp" ->
                \E p \in ports :
                  th' = [th EXCEPT ![t] = Enter([Idle EXCEPT !.op = op, !.arg = p],
                                                is_free_udp(p), "done")]
           [] op = "is_free_tcp" ->
                \E p \in ports :
                  th' = [th EXCEPT ![t] = Enter([Idle EXCEPT !.op = op, !.arg = p],
                                                is_free_tcp(p), "done")]
           [] op = "is_free" ->
                \E p \in ports :
                  th' = [th EXCEPT ![t] = Enter([Idle EXCEPT !.op = op, !.arg = p],
                                                is_free(p), "done")]
           [] op = "pick_unused_port" ->
                th' = [th EXCEPT ![t] = [Idle EXCEPT !.op = op, !.pc = "random"]]
           [] op = "pick_unused_port_range" ->
                \E r \in ranges :
                  th' = [th EXCEPT ![t] = [Idle EXCEPT !.op = op, !.pc = "range",
                                             !.start = r.start, !.end = r.end,
                                             !.cur = r.start]]
    /\ UNCHANGED <<occupied, held, ipv6, v6only, faults>>

\* UdpSocket::bind(addr).ok()? / TcpListener::bind(addr).ok()?
Bind(t) ==
    /\ th[t].pc = "bind"
    /\ LET p == Head(th[t].plan.probes) IN
       \E res \in OsBind(p.proto, p.fam, p.port) :
         LET e == Try(res) IN
         CASE e.kind = "value" ->
                /\ held' = held \cup {[owner |-> t, proto |-> p.proto,
                                       fam |-> p.fam, port |-> e.port]}
                /\ th' = [th EXCEPT ![t].pc = "close"]
           [] e.kind = "return" ->
                /\ held' = held
                /\ th' = [th EXCEPT ![t] = ProbeReturn(th[t], None)]
           [] OTHER ->
                /\ held' = held
                /\ th' = [th EXCEPT ![t].pc = "panic"]
    /\ UNCHANGED <<occupied, ipv6, v6only, faults>>

\* .local_addr().ok()?.port(), and the socket goes out of scope
Close(t) ==
    /\ th[t].pc = "close"
    /\ \E sock \in {s \in held : s.owner = t} :
       \E res \in OsLocalAddr(sock) :
         LET e == Try(res) IN
         /\ held' = Drop(t, sock)
         /\ CASE e.kind = "value" ->
                   th' = [th EXCEPT ![t] = ProbeReturn(th[t], Some(e.port))]
              [] e.kind = "return" ->
                   th' = [th EXCEPT ![t] = ProbeReturn(th[t], None)]
              [] OTHER ->
                   th' = [th EXCEPT ![t].pc = "panic"]
    /\ UNCHANGED <<occupied, ipv6, v6only, faults>>

\* pick_unused_port: for _ in 0..10 { let port = rng.gen_range(15000..25000); is_free(port)
PickRandom(t) ==
    /\ th[t].pc = "random"
    /\ IF th[t].i < RANDOM_ATTEMPTS
       THEN \E port \in gen_range(RANDOM_LO, RANDOM_HI) :
              th' = [th EXCEPT ![t] = Enter([th[t] EXCEPT !.port = port],
                                            is_free(port), "random_test")]
       ELSE th' = [th EXCEPT ![t].pc = "os"]
    /\ UNCHANGED <<occupied, held, ipv6, v6only, faults>>

\* the random phase given up at the first candidate that is not free
PickRandomTestGiveUp(t) ==
    /\ th[t].pc = "random_test"
    /\ IF th[t].b
       THEN th' = [th EXCEPT ![t].result = Some(th[t].port), ![t].pc = "done"]
       ELSE th' = [th EXCEPT ![t].i = th[t].i + 1, ![t].pc = "os"]
    /\ UNCHANGED <<occupied, held, ipv6, v6only, faults>>

\* pick_unused_port: if is_free(port) { return Some(port); }
PickRandomTest(t) ==
    /\ th[t].pc = "random_test"
    /\ IF th[t].b
       THEN th' = [th EXCEPT ![t].result = Some(th[t].port), ![t].pc = "done"]
       ELSE th' = [th EXCEPT ![t].i = th[t].i + 1, ![t].pc = "random"]
    /\ UNCHANGED <<occupied, held, ipv6, v6only, faults>>

\* pick_unused_port: for _ in 0..10 { ask_free_tcp_port() ... } None
PickOs(t) ==
    /\ th[t].pc = "os"
    /\ IF th[t].j < OS_ATTEMPTS
       THEN th' = [th EXCEPT ![t] = Enter(th[t], ask_free_tcp_port, "os_got")]
       ELSE th' = [th EXCEPT ![t].result = None, ![t].pc = "done"]
    /\ UNCHANGED <<occupied, held, ipv6, v6only, faults>>

\* pick_unused_port: if let Some(port) = ask_free_tcp_port() { is_free_udp(port)
PickOsGot(t) ==
    /\ th[t].pc = "os_got"
    /\ IF is_some(th[t].got)
       THEN th' = [th EXCEPT ![t] = Enter([th[t] EXCEPT !.port = unwrap(th[t].got)],
                                          is_free_udp(unwrap(th[t].got)), "os_test")]
       ELSE th' = [th EXCEPT ![t].j = th[t].j + 1, ![t].pc = "os"]
    /\ UNCHANGED <<occupied, held, ipv6, v6only, faults>>

\* the OS phase given up at the first port that is not free on UDP
PickOsTestGiveUp(t) ==
    /\ th[t].pc = "os_test"
    /\ IF th[t].b
       THEN th' = [th EXCEPT ![t].result = Some(th[t].port), ![t].pc = "done"]
       ELSE th' = [th EXCEPT ![t].result = None, ![t].pc = "done"]
    /\ UNCHANGED <<occupied, held, ipv6, v6only, faults>>

\* pick_unused_port: if is_free_udp(port) { return Some(port); }
PickOsTest(t) ==
    /\ th[t].pc = "os_test"
    /\ IF th[t].b
       THEN th' = [th EXCEPT ![t].result = Some(th[t].port), ![t].pc = "done"]
       ELSE th' = [th EXCEPT ![t].j = th[t].j + 1, ![t].pc = "os"]
    /\ UNCHANGED <<occupied, held, ipv6, v6only, faults>>

\* the range taken as start..=end
RangeNextInclusive(t) ==
    /\ th[t].pc = "range"
    /\ IF th[t].cur <= th[t].end
       THEN th' = [th EXCEPT ![t] = Enter([th[t] EXCEPT !.port = th[t].cur,
                                                         !.cur = th[t].cur + 1],
                                          is_free(th[t].cur), "range_test")]
       ELSE th' = [th EXCEPT ![t].result = None, ![t].pc = "done"]
    /\ UNCHANGED <<occupied, held, ipv6, v6only, faults>>

\* pick_unused_port_range: range.into_iter() ... .next(), the filter's is_free(*x)
RangeNext(t) ==
    /\ th[t].pc = "range"
    /\ IF th[t].cur < th[t].end
       THEN th' = [th EXCEPT ![t] = Enter([th[t] EXCEPT !.port = th[t].cur,
                                                         !.cur = th[t].cur + 1],
                                          is_free(th[t].cur), "range_test")]
       ELSE th' = [th EXCEPT ![t].result = None, ![t].pc = "done"]
    /\ UNCHANGED <<occupied, held, ipv6, v6only, faults>>

\* pick_unused_port_range: .filter(|x| is_free(*x)).next()
RangeTest(t) ==
    /\ th[t].pc = "range_test"
    /\ IF th[t].b
       THEN th' = [th EXCEPT ![t].result = Some(th[t].port), ![t].pc = "done"]
       ELSE th' = [th EXCEPT ![t].pc = "range"]
    /\ UNCHANGED <<occupied, held, ipv6, v6only, faults>>

----------------------------------------------------------------------------
(* Other processes *)

\* another process binds a wildcard socket
OtherBind ==
    /\ Cardinality(occupied) < MaxOccupied
    /\ \E s \in OccSockets :
         /\ s.fam = "v6" => ipv6
         /\ ~InUse(PortTable, s.proto, s.fam, s.port)
         /\ occupied' = occupied \cup {s}
    /\ UNCHANGED <<held, ipv6, v6only, faults, th>>

\* another process closes its socket
OtherClose ==
    /\ \E s \in occupied : occupied' = occupied \ {s}
    /\ UNCHANGED <<held, ipv6, v6only, faults, th>>

----------------------------------------------------------------------------
(* Specifications *)

\* the port tables other processes can have built
Occupancies ==
    {o \in SUBSET OccSockets :
        /\ Cardinality(o) <= MaxOccupied
        /\ \A s \in o : s.fam = "v6" => ipv6
        /\ \A s \in o : ~\E u \in o \ {s} : Conflicts(s.proto, s.fam, s.port, u)}

InitHost ==
    /\ ipv6 \in BOOLEAN
    /\ v6only \in BOOLEAN
    /\ ~ipv6 => v6only
    /\ occupied \in Occupancies
    /\ held = {}

AllOps == {"is_free_udp", "is_free_tcp", "is_free", "pick_unused_port",
           "pick_unused_port_range"}
\* the operations run concurrently, and their arguments
SharedOps == {"is_free_udp", "is_free_tcp", "is_free", "pick_unused_port_range"}
SharedPorts == {0, RANDOM_LO}
SharedRanges == {r \in Ranges : r.start = RANDOM_LO /\ r.end > r.start}

\* one caller, the other processes' sockets unchanged
Init ==
    /\ InitHost
    /\ faults = FALSE
    /\ th = [t \in {"t1"} |-> Idle]

Next ==
    \/ \E t \in {"t1"} : Call(t, AllOps, ArgPorts, Ranges)
    \/ \E t \in {"t1"} : Bind(t)
    \/ \E t \in {"t1"} : Close(t)
    \/ \E t \in {"t1"} : PickRandom(t)
    \/ \E t \in {"t1"} : PickRandomTest(t)
    \/ \E t \in {"t1"} : PickOs(t)
    \/ \E t \in {"t1"} : PickOsGot(t)
    \/ \E t \in {"t1"} : PickOsTest(t)
    \/ \E t \in {"t1"} : RangeNext(t)
    \/ \E t \in {"t1"} : RangeTest(t)

Spec == Init /\ [][Next]_vars

\* one caller, on a host where other processes bind and close sockets and
\* system calls can fail for lack of resources
InitEnv ==
    /\ InitHost
    /\ faults = TRUE
    /\ th = [t \in {"t1"} |-> Idle]

NextEnv ==
    \/ Next
    \/ OtherBind
    \/ OtherClose

SpecEnv == InitEnv /\ [][NextEnv]_vars

\* calls of pick_unused_port alone, the other processes' sockets unchanged,
\* system calls can fail for lack of resources; a thread inside the library
\* keeps running
PickStep(t) ==
    \/ Bind(t)
    \/ Close(t)
    \/ PickRandom(t)
    \/ PickRandomTest(t)
    \/ PickOs(t)
    \/ PickOsGot(t)
    \/ PickOsTest(t)

NextPick ==
    \/ \E t \in {"t1"} : Call(t, {"pick_unused_port"}, {}, {})
    \/ \E t \in {"t1"} : PickStep(t)

SpecPickLive == InitEnv /\ [][NextPick]_vars /\ WF_vars(PickStep("t1"))

\* one caller, the other processes' sockets unchanged, system calls can fail
\* for lack of resources
SpecFaulty == InitEnv /\ [][Next]_vars

\* two callers at once, the other processes' sockets unchanged
InitShared ==
    /\ InitHost
    /\ Cardinality(occupied) <= 1
    /\ faults = FALSE
    /\ th = [t \in Threads |-> Idle]

NextShared ==
    \/ \E t \in Threads : Call(t, SharedOps, SharedPorts, SharedRanges)
    \/ \E t \in Threads : Bind(t)
    \/ \E t \in Threads : Close(t)
    \/ \E t \in Threads : RangeNext(t)
    \/ \E t \in Threads : RangeTest(t)

SpecShared == InitShared /\ [][NextShared]_vars

----------------------------------------------------------------------------
(* Properties *)

\* a bind of (proto, fam, port) succeeds against the other processes' sockets
Free(proto, fam, port) == \E r \in HostBind(occupied, proto, fam, port) : r.ok
FreeTcp(port) == Free("tcp", "v6", port) /\ Free("tcp", "v4", port)
FreeUdp(port) == Free("udp", "v6", port) /\ Free("udp", "v4", port)
FreePort(port) == FreeTcp(port) /\ FreeUdp(port)

LowestFree(start, end) ==
    LET free == {p \in start..(end - 1) : FreePort(p)}
    IN  IF free = {} THEN None
        ELSE Some(CHOOSE p \in free : \A q \in free : p <= q)

Returned(t, op) == th[t].pc = "done" /\ th[t].op = op

\* C1: with the other processes' sockets unchanged, pick_unused_port_range
\* returns the lowest port of start..end that is free on TCP and UDP on both
\* families, and None exactly when the range holds no such port.
C1_RangeReturnsLowestFree ==
    \A t \in DOMAIN th :
        Returned(t, "pick_unused_port_range") =>
            th[t].result = LowestFree(th[t].start, th[t].end)

\* a call skipped an occupied port and returned the next one
C1_Witness ==
    \E t \in DOMAIN th :
        /\ Returned(t, "pick_unused_port_range")
        /\ is_some(th[t].result)
        /\ unwrap(th[t].result) > th[t].start
        /\ ~FreePort(th[t].start)

\* C2: whatever the other processes do during the call, pick_unused_port_range
\* returns None or a port p with start <= p < end, and None for an empty range.
C2_RangeResultInRange ==
    \A t \in DOMAIN th :
        Returned(t, "pick_unused_port_range") =>
            /\ is_some(th[t].result) =>
                   /\ th[t].start <= unwrap(th[t].result)
                   /\ unwrap(th[t].result) < th[t].end
            /\ th[t].end <= th[t].start => th[t].result = None

\* a call returned the last port of its range
C2_Witness ==
    \E t \in DOMAIN th :
        /\ Returned(t, "pick_unused_port_range")
        /\ is_some(th[t].result)
        /\ unwrap(th[t].result) = th[t].end - 1
        /\ unwrap(th[t].result) > th[t].start

\* C3: with the other processes' sockets unchanged, a port returned by
\* pick_unused_port is free on TCP and on UDP, on both families.
C3_PickedPortIsFree ==
    \A t \in DOMAIN th :
        (Returned(t, "pick_unused_port") /\ is_some(th[t].result)) =>
            FreePort(unwrap(th[t].result))

\* C4: is_free_tcp (is_free_udp) is true exactly when the port can be bound on
\* TCP (UDP) on both wildcard addresses, is_free exactly when both are, and a
\* socket of another process on the port makes is_free false.
C4_PredicatesAreConjunctions ==
    \A t \in DOMAIN th :
        /\ Returned(t, "is_free_tcp") => (th[t].b <=> FreeTcp(th[t].arg))
        /\ Returned(t, "is_free_udp") => (th[t].b <=> FreeUdp(th[t].arg))
        /\ Returned(t, "is_free") =>
               /\ th[t].b <=> (FreeTcp(th[t].arg) /\ FreeUdp(th[t].arg))
               /\ (\E s \in occupied : s.port = th[t].arg) => ~th[t].b

\* is_free said no for a port taken on UDP over IPv4 alone
C4_Witness ==
    \E t \in DOMAIN th :
        /\ Returned(t, "is_free")
        /\ ~th[t].b
        /\ FreeTcp(th[t].arg)
        /\ Free("udp", "v6", th[t].arg)
        /\ ~Free("udp", "v4", th[t].arg)

Option(o) == o = None \/ (Len(o) = 1 /\ o[1] \in 0..MAX_PORT)

\* C5: no operation panics; a failed bind or local_addr makes the probe return
\* None, the predicate around it false, and every result is a bool or an
\* Option<Port>.
C5_NoPanic ==
    \A t \in DOMAIN th :
        /\ th[t].pc # "panic"
        /\ th[t].b \in BOOLEAN
        /\ Option(th[t].result)
        /\ Option(th[t].got)

\* a bind that opened no socket
BindFailed(t) ==
    /\ th[t].pc = "bind"
    /\ th'[t] # th[t]
    /\ th'[t].pc # "close"

C5_BindFailureIsNone ==
    \A t \in DOMAIN th :
        BindFailed(t) =>
            /\ held' = held
            /\ th'[t].pc # "panic"
            /\ th[t].plan.mode = "and" => (th'[t].pc = th[t].ret /\ ~th'[t].b)
            /\ (th[t].plan.mode = "or_else" /\ th'[t].pc = th[t].ret) =>
                   th'[t].got = None

C5_FailuresAreAbsence == []C5_NoPanic /\ [][C5_BindFailureIsNone]_vars

\* is_free returned false for a free port, a system call having failed for
\* lack of resources
C5_Witness ==
    \E t \in DOMAIN th :
        /\ Returned(t, "is_free")
        /\ ~th[t].b
        /\ FreePort(th[t].arg)

\* C6: pick_unused_port never returns port 0: a port of the random phase lies
\* in [15000, 25000), a port of the OS phase is the nonzero port the OS bound
\* and ask_free_tcp_port read back.
C6_PickedPortNotZero ==
    \A t \in DOMAIN th :
        (Returned(t, "pick_unused_port") /\ is_some(th[t].result)) =>
            LET p == unwrap(th[t].result) IN
            /\ p # 0
            /\ th[t].got = None => (15000 <= p /\ p < 25000)
            /\ th[t].got # None =>
                   /\ th[t].got = Some(p)
                   /\ p \in EphemeralPorts

\* the OS phase returned the port of its second attempt or a later one
C6_Witness ==
    \E t \in DOMAIN th :
        /\ Returned(t, "pick_unused_port")
        /\ is_some(th[t].result)
        /\ th[t].j > 0
        /\ th[t].got = th[t].result

\* C7: a probe socket is open only inside the probe that opened it: a caller
\* has at most one open, none outside a probe, and after a return the host's
\* port table holds the other processes' sockets only; the returned port is
\* not bound.
C7_NoSocketOutlivesProbe ==
    \A t \in DOMAIN th :
        LET mine == {s \in held : s.owner = t} IN
        /\ Cardinality(mine) <= 1
        /\ th[t].pc # "close" => mine = {}
        /\ th[t].pc \in {"idle", "done"} => PortTable = occupied

\* pick_unused_port returned a port and holds no socket on it
C7_Witness ==
    \E t \in DOMAIN th :
        /\ Returned(t, "pick_unused_port")
        /\ is_some(th[t].result)
        /\ \A s \in PortTable : s.port # unwrap(th[t].result)

Predicates == {"is_free_udp", "is_free_tcp", "is_free"}

FreeFor(op, port) ==
    CASE op = "is_free_udp" -> FreeUdp(port)
      [] op = "is_free_tcp" -> FreeTcp(port)
      [] OTHER -> FreePort(port)

\* C8: each of several concurrent calls returns what it would return alone:
\* the predicates the truth about the other processes' sockets, and
\* pick_unused_port_range the lowest free port of its range.
C8_SameResultAsAlone ==
    \A t \in DOMAIN th :
        /\ (th[t].pc = "done" /\ th[t].op \in Predicates) =>
               (th[t].b <=> FreeFor(th[t].op, th[t].arg))
        /\ Returned(t, "pick_unused_port_range") =>
               th[t].result = LowestFree(th[t].start, th[t].end)

\* C8 as amended: a concurrent call never reports a port as free that another
\* process holds: a predicate that returns true, and a port that
\* pick_unused_port_range returns, are free of other processes' sockets, and
\* the port lies in the range at or above its lowest free port.
C8_NoFalsePositive ==
    \A t \in DOMAIN th :
        /\ (th[t].pc = "done" /\ th[t].op \in Predicates) =>
               (th[t].b => FreeFor(th[t].op, th[t].arg))
        /\ (Returned(t, "pick_unused_port_range") /\ is_some(th[t].result)) =>
               LET p == unwrap(th[t].result) IN
               /\ FreePort(p)
               /\ th[t].start <= p /\ p < th[t].end
               /\ LowestFree(th[t].start, th[t].end) # None
               /\ unwrap(LowestFree(th[t].start, th[t].end)) <= p

\* two callers returned, one with the lowest free port of its range and one
\* with a higher port of the same range
C8_Witness ==
    \E t \in DOMAIN th : \E u \in DOMAIN th :
        /\ Returned(t, "pick_unused_port_range")
        /\ Returned(u, "pick_unused_port_range")
        /\ th[t].start = th[u].start /\ th[t].end = th[u].end
        /\ th[t].result = LowestFree(th[t].start, th[t].end)
        /\ is_some(th[u].result)
        /\ th[u].result # th[t].result

\* the OS phase of pick_unused_port has begun
InOsPhase(t) ==
    \/ th[t].pc \in {"os", "os_got", "os_test"}
    \/ th[t].pc \in {"bind", "close"} /\ th[t].ret \in {"os_got", "os_test"}

\* C9: pick_unused_port asks the OS for a port only after 10 random candidates
\* failed is_free, and returns the first random candidate that passes is_free
\* without another draw or a request to the OS.
C9_OsAfterTen ==
    \A t \in DOMAIN th :
        /\ InOsPhase(t) => th[t].i = 10
        /\ (th[t].op = "pick_unused_port" /\ th[t].i < 10) =>
               /\ th[t].j = 0 /\ th[t].got = None
               /\ th[t].pc = "done" => th[t].result = Some(th[t].port)

C9_FirstPassReturned ==
    \A t \in DOMAIN th :
        (th[t].pc = "random_test" /\ th[t].b /\ th'[t] # th[t]) =>
            /\ th'[t].pc = "done"
            /\ th'[t].result = Some(th[t].port)
            /\ th'[t].i = th[t].i /\ th'[t].j = 0 /\ th'[t].got = None

C9_OsPhaseAfterTenFailures == []C9_OsAfterTen /\ [][C9_FirstPassReturned]_vars

\* the OS phase returned a port after ten random candidates failed
C9_Witness ==
    \E t \in DOMAIN th :
        /\ Returned(t, "pick_unused_port")
        /\ th[t].i = 10
        /\ th[t].j = 0
        /\ is_some(th[t].result)

\* an attempt of pick_unused_port succeeded
AttemptSucceeds(t) == th[t].pc \in {"random_test", "os_test"} /\ th[t].b

\* C10: pick_unused_port ends after at most 10 random candidates and at most
\* 10 OS attempts; it returns None exactly when all 20 failed, and the port of
\* the first attempt that succeeds otherwise.
C10_Counted ==
    \A t \in DOMAIN th :
        /\ th[t].i \in 0..10 /\ th[t].j \in 0..10
        /\ Returned(t, "pick_unused_port") =>
               (th[t].result = None <=> (th[t].i = 10 /\ th[t].j = 10))

C10_SuccessReturns ==
    \A t \in DOMAIN th :
        (AttemptSucceeds(t) /\ th'[t] # th[t]) =>
            (th'[t].pc = "done" /\ th'[t].result = Some(th[t].port))

C10_Ends ==
    \A t \in {"t1"} : th[t].pc = "random" ~> th[t].pc = "done"

C10_TerminatesCounted ==
    /\ []C10_Counted
    /\ [][C10_SuccessReturns]_vars
    /\ C10_Ends

\* pick_unused_port gave up after 10 random candidates and 10 OS attempts
C10_Witness ==
    \E t \in DOMAIN th :
        /\ Returned(t, "pick_unused_port")
        /\ th[t].result = None
        /\ th[t].i = 10
        /\ th[t].j = 10

====
